---- MODULE Spec2Model ----
(***************************************************************************)
(* Model of server.py, the ET diagnostic report upload server: the GET     *)
(* status probe and the POST upload handler, run by several worker threads *)
(* of the HTTP layer over one shared directory tree and one wall clock.    *)
(* Strings whose characters the code inspects (filenames, timestamps) are  *)
(* sequences of one-character strings.                                     *)
(***************************************************************************)
EXTENDS Integers, Sequences, FiniteSets, TLC

\* ------------------------------------------------------------------ bounds
MaxTick == 2         \* seconds that pass in one run
DayLen == 2          \* seconds from one midnight to the next
MaxUploads == 2      \* requests received in one run
Workers == {1, 2}    \* worker threads handling requests concurrently

\* ----------------------------------------------------------- configuration
UPLOAD_FOLDER == "received_reports"
ALLOWED_EXTENSIONS == {<<"z", "i", "p">>, <<"c", "s", "v">>}
API_KEY == "CHANGE_ME_IN_PROD"

\* ------------------------------------------------------------ string tools
UpperCase == <<"A", "B", "C", "D", "E", "F", "G", "H", "I", "J", "K", "L", "M",
               "N", "O", "P", "Q", "R", "S", "T", "U", "V", "W", "X", "Y", "Z">>
LowerCase == <<"a", "b", "c", "d", "e", "f", "g", "h", "i", "j", "k", "l", "m",
               "n", "o", "p", "q", "r", "s", "t", "u", "v", "w", "x", "y", "z">>
Digit == <<"0", "1", "2", "3", "4", "5", "6", "7", "8", "9">>

Range(s) == {s[i] : i \in 1..Len(s)}

\* str.lower() of one character
LowerChar(c) ==
    IF c \in Range(UpperCase)
    THEN LowerCase[CHOOSE i \in 1..26 : UpperCase[i] = c]
    ELSE c

\* str.lower()
lower(s) == [i \in 1..Len(s) |-> LowerChar(s[i])]

\* s.rsplit('.', 1)[1]: what follows the last dot (s contains a dot)
rsplit_dot_1(s) ==
    LET last == CHOOSE i \in 1..Len(s) :
                    s[i] = "." /\ \A j \in (i + 1)..Len(s) : s[j] # "."
    IN SubSeq(s, last + 1, Len(s))

\* str.endswith
endswith(s, suffix) ==
    /\ Len(s) >= Len(suffix)
    /\ SubSeq(s, Len(s) - Len(suffix) + 1, Len(s)) = suffix

\* variant: the suffix is not looked at
allowed_file_any_suffix(filename) == "." \in Range(filename)

allowed_file(filename) ==
    /\ "." \in Range(filename)
    /\ lower(rsplit_dot_1(filename)) \in ALLOWED_EXTENSIONS

\* --- werkzeug.utils.secure_filename, as called at line 64 (POSIX host) ---
SafeChars == Range(UpperCase) \cup Range(LowerCase) \cup Range(Digit)
                \cup {"_", ".", "-"}
Ascii == SafeChars \cup {" ", "/", "\\", "(", ")"}

RECURSIVE Filter(_, _)
Filter(s, keep) ==
    IF s = <<>> THEN <<>>
    ELSE IF Head(s) \in keep THEN <<Head(s)>> \o Filter(Tail(s), keep)
    ELSE Filter(Tail(s), keep)

\* filename.replace(os.sep, " ")
ReplaceSep(s) == [i \in 1..Len(s) |-> IF s[i] = "/" THEN " " ELSE s[i]]

\* "_".join(s.split()): runs of blanks become one "_", outer blanks vanish
RECURSIVE SplitJoin(_, _)
SplitJoin(s, started) ==
    IF s = <<>> THEN <<>>
    ELSE IF Head(s) = " "
         THEN IF started /\ \E i \in 1..Len(s) : s[i] # " "
                         /\ (Len(s) >= 2 => s[2] # " ")
              THEN <<"_">> \o SplitJoin(Tail(s), started)
              ELSE SplitJoin(Tail(s), started)
         ELSE <<Head(s)>> \o SplitJoin(Tail(s), TRUE)

\* s.strip("._")
RECURSIVE LStrip(_)
LStrip(s) ==
    IF s # <<>> /\ Head(s) \in {".", "_"} THEN LStrip(Tail(s)) ELSE s
RECURSIVE RStrip(_)
RStrip(s) ==
    IF s # <<>> /\ s[Len(s)] \in {".", "_"}
    THEN RStrip(SubSeq(s, 1, Len(s) - 1)) ELSE s

secure_filename(name) ==
    RStrip(LStrip(Filter(SplitJoin(ReplaceSep(Filter(name, Ascii)), FALSE),
                         SafeChars)))

\* strftime("%Y-%m-%d") and strftime("%H%M%S") of the clock's reading
strftime_Ymd(t) ==
    <<"2", "0", "2", "6", "-", "0", "1", "-",
      Digit[(t.day \div 10) + 1], Digit[(t.day % 10) + 1]>>
strftime_HMS(t) ==
    <<"0", "0", "0", "0", Digit[(t.sec \div 10) + 1], Digit[(t.sec % 10) + 1]>>

\* ------------------------------------------------------------- the inputs
NoToken == "<header absent>"
Tokens == {API_KEY, "guessed-token", NoToken}

Csv_a    == <<"a", ".", "c", "s", "v">>
Zip_a    == <<"a", ".", "z", "i", "p">>
Zip_A    == <<"a", ".", "Z", "I", "P">>
Zip_only == <<".", "z", "i", "p">>
Txt_a    == <<"a", ".", "t", "x", "t">>
NoDot    == <<"c", "s", "v">>

\* bodies, each within MAX_CONTENT_LENGTH: plain rows, a sound archive, an
\* archive with a damaged member; Truncated is a file opened and not yet
\* written
Rows == "id,value"
ZipGood == "PK:archive"
ZipCorrupt == "PK:archive-with-bad-crc"
Truncated == ""

POST_upload == "POST /api/v1/upload"
GET_status == "GET /api/v1/status"

Upload(t, f, b, d) ==
    [route |-> POST_upload, token |-> t, has_file |-> TRUE, filename |-> f,
     body |-> b, description |-> d]
NoFilePart(t, d) ==
    [route |-> POST_upload, token |-> t, has_file |-> FALSE,
     filename |-> <<>>, body |-> Truncated, description |-> d]
StatusRequest == [NoFilePart(NoToken, "") EXCEPT !.route = GET_status]
NoRequest == [NoFilePart(NoToken, "") EXCEPT !.route = "-"]

\* what an authorized client sends: requests the checks reject, reports
\* with and without a note, archives sound and damaged, and the two
\* spellings of the zip extension that survive neither case nor stripping
Rejected ==
    {NoFilePart(API_KEY, ""), Upload(API_KEY, <<>>, Rows, "")}
    \cup {Upload(API_KEY, f, Rows, "note-1") : f \in {Txt_a, NoDot}}
Reports ==
    {Upload(API_KEY, Csv_a, Rows, "note-1"),
     Upload(API_KEY, Csv_a, ZipGood, ""),
     Upload(API_KEY, Zip_a, Rows, ""),
     Upload(API_KEY, Zip_a, ZipGood, "note-2"),
     Upload(API_KEY, Zip_a, ZipCorrupt, "note-2"),
     Upload(API_KEY, Zip_A, Rows, ""), Upload(API_KEY, Zip_only, Rows, "")}
Authorized == Rejected \cup Reports

\* what a client without the secret sends
Unauthorized ==
    {NoFilePart(NoToken, ""), NoFilePart("guessed-token", ""),
     Upload(NoToken, Txt_a, Rows, ""),
     Upload("guessed-token", Csv_a, Rows, "note-1")}

UploadRequests == Authorized \cup Unauthorized

\* zipfile.ZipFile(path) opens, and testzip() finds no bad member
IsArchive(content) == content \in {ZipGood, ZipCorrupt}
testzip(content) == IF content = ZipCorrupt THEN "member" ELSE "None"

\* ------------------------------------------------------------------ state
VARIABLES
    dirs,        \* directories that exist, as paths
    files,       \* path -> content of every file that exists
    now,         \* the wall clock: [day, sec]
    received,    \* requests received so far
    pc,          \* worker -> position in the handler
    req,         \* worker -> the request it handles
    date_str,    \* worker -> local date_str
    filename,    \* worker -> local filename, the sanitized name
    timestamp,   \* worker -> local timestamp
    resp         \* worker -> response <<status, text>>

vars ==
    <<dirs, files, now, received, pc, req, date_str, filename, timestamp, resp>>

NoStr == <<>>
NoResp == <<0, "">>

\* variant: any token that is present passes
check_auth_any_token(r) == req[r].token # NoToken

check_auth(r) == req[r].token = API_KEY

\* os.path.join
daily_folder(r) == <<UPLOAD_FOLDER, date_str[r]>>
save_path(r) == daily_folder(r) \o <<timestamp[r] \o <<"_">> \o filename[r]>>
desc_path(r) ==
    daily_folder(r)
        \o <<timestamp[r] \o <<"_", "d", "e", "s", "c", ".", "t", "x", "t">>>>

Init ==
    /\ dirs = {<<UPLOAD_FOLDER>>}
    /\ files = <<>>
    /\ now = [day |-> 1, sec |-> 0]
    /\ received = 0
    /\ pc = [r \in Workers |-> "idle"]
    /\ req = [r \in Workers |-> NoRequest]
    /\ date_str = [r \in Workers |-> NoStr]
    /\ filename = [r \in Workers |-> NoStr]
    /\ timestamp = [r \in Workers |-> NoStr]
    /\ resp = [r \in Workers |-> NoResp]

Return(r, status_code, text) ==
    /\ pc' = [pc EXCEPT ![r] = "done"]
    /\ resp' = [resp EXCEPT ![r] = <<status_code, text>>]

Goto(r, label) ==
    /\ pc' = [pc EXCEPT ![r] = label]
    /\ resp' = resp

\* the HTTP layer hands a request to the first free worker
FreeWorker(r) == pc[r] = "idle" /\ \A q \in Workers : q < r => pc[q] # "idle"

\* GET /api/v1/status
status(r) ==
    /\ FreeWorker(r)
    /\ received < MaxUploads
    /\ received' = received + 1
    /\ req' = [req EXCEPT ![r] = StatusRequest]
    /\ Return(r, 200, "online")
    /\ UNCHANGED <<dirs, files, now, date_str, filename, timestamp>>

\* POST /api/v1/upload arrives
Receive(r) ==
    /\ FreeWorker(r)
    /\ received < MaxUploads
    /\ received' = received + 1
    /\ \E q \in UploadRequests : req' = [req EXCEPT ![r] = q]
    /\ Goto(r, "auth")
    /\ UNCHANGED <<dirs, files, now, date_str, filename, timestamp>>

\* variant: the file part is looked at before the token
Authorize_after_file_part(r) ==
    /\ pc[r] = "auth"
    /\ IF ~req[r].has_file
       THEN Return(r, 400, "No file part")
       ELSE IF ~check_auth(r)
            THEN Return(r, 401, "Unauthorized")
            ELSE Goto(r, "file_part")
    /\ UNCHANGED <<dirs, files, now, received, req, date_str, filename,
                   timestamp>>

\* lines 44-45
Authorize(r) ==
    /\ pc[r] = "auth"
    /\ IF ~check_auth(r)
       THEN Return(r, 401, "Unauthorized")
       ELSE Goto(r, "file_part")
    /\ UNCHANGED <<dirs, files, now, received, req, date_str, filename,
                   timestamp>>

\* lines 47-51
FilePart(r) ==
    /\ pc[r] = "file_part"
    /\ IF ~req[r].has_file
       THEN Return(r, 400, "No file part")
       ELSE Goto(r, "selected")
    /\ UNCHANGED <<dirs, files, now, received, req, date_str, filename,
                   timestamp>>

\* lines 53-54
Selected(r) ==
    /\ pc[r] = "selected"
    /\ IF req[r].filename = <<>>
       THEN Return(r, 400, "No selected file")
       ELSE Goto(r, "allowed")
    /\ UNCHANGED <<dirs, files, now, received, req, date_str, filename,
                   timestamp>>

\* lines 56-59 and 87
Allowed(r) ==
    /\ pc[r] = "allowed"
    /\ IF req[r].filename # <<>> /\ allowed_file(req[r].filename)
       THEN /\ date_str' = [date_str EXCEPT ![r] = strftime_Ymd(now)]
            /\ Goto(r, "exists")
       ELSE /\ date_str' = date_str
            /\ Return(r, 400, "Invalid file type")
    /\ UNCHANGED <<dirs, files, now, received, req, filename, timestamp>>

\* line 60
Exists(r) ==
    /\ pc[r] = "exists"
    /\ IF daily_folder(r) \notin dirs
       THEN Goto(r, "makedirs")
       ELSE Goto(r, "name")
    /\ UNCHANGED <<dirs, files, now, received, req, date_str, filename,
                   timestamp>>

\* line 61: os.makedirs raises FileExistsError when the leaf exists
Makedirs(r) ==
    /\ pc[r] = "makedirs"
    /\ IF daily_folder(r) \in dirs
       THEN /\ dirs' = dirs
            /\ Return(r, 500, "FileExistsError")
       ELSE /\ dirs' = dirs \cup {daily_folder(r)}
            /\ Goto(r, "name")
    /\ UNCHANGED <<files, now, received, req, date_str, filename, timestamp>>

\* lines 64-66
Name(r) ==
    /\ pc[r] = "name"
    /\ filename' = [filename EXCEPT ![r] = secure_filename(req[r].filename)]
    /\ timestamp' = [timestamp EXCEPT ![r] = strftime_HMS(now)]
    /\ Goto(r, "save_open")
    /\ UNCHANGED <<dirs, files, now, received, req, date_str>>

\* line 68, file.save: open(save_path, "wb") creates or truncates
SaveOpen(r) ==
    /\ pc[r] = "save_open"
    /\ files' = (save_path(r) :> Truncated) @@ files
    /\ Goto(r, "save_write")
    /\ UNCHANGED <<dirs, now, received, req, date_str, filename, timestamp>>

\* line 68, file.save: the body is copied into the open file
SaveWrite(r) ==
    /\ pc[r] = "save_write"
    /\ files' = (save_path(r) :> req[r].body) @@ files
    /\ Goto(r, "verify")
    /\ UNCHANGED <<dirs, now, received, req, date_str, filename, timestamp>>

\* variant: a rejected archive is removed again
Verify_cleanup(r) ==
    /\ pc[r] = "verify"
    /\ IF endswith(filename[r], <<".", "z", "i", "p">>)
       THEN IF ~IsArchive(files[save_path(r)])
                \/ testzip(files[save_path(r)]) # "None"
            THEN /\ files' = [p \in DOMAIN files \ {save_path(r)} |-> files[p]]
                 /\ Return(r, 400, "Invalid ZIP")
            ELSE /\ files' = files
                 /\ Goto(r, "desc")
       ELSE /\ files' = files
            /\ Goto(r, "desc")
    /\ UNCHANGED <<dirs, now, received, req, date_str, filename, timestamp>>

\* lines 71-77: the archive is read back from save_path
Verify(r) ==
    /\ pc[r] = "verify"
    /\ IF endswith(filename[r], <<".", "z", "i", "p">>)
       THEN IF ~IsArchive(files[save_path(r)])
            THEN Return(r, 400, "Invalid ZIP")
            ELSE IF testzip(files[save_path(r)]) # "None"
                 THEN Return(r, 400, "Corrupted ZIP")
                 ELSE Goto(r, "desc")
       ELSE Goto(r, "desc")
    /\ UNCHANGED <<dirs, files, now, received, req, date_str, filename,
                   timestamp>>

\* variant: the note is written whether or not it is empty
Describe_always(r) ==
    /\ pc[r] = "desc"
    /\ files' = (desc_path(r) :> req[r].description) @@ files
    /\ Return(r, 201, "Secure upload successful")
    /\ UNCHANGED <<dirs, now, received, req, date_str, filename, timestamp>>

\* lines 79-85
Describe(r) ==
    /\ pc[r] = "desc"
    /\ IF req[r].description # ""
       THEN files' = (desc_path(r) :> req[r].description) @@ files
       ELSE files' = files
    /\ Return(r, 201, "Secure upload successful")
    /\ UNCHANGED <<dirs, now, received, req, date_str, filename, timestamp>>

\* the response is sent and the request is discarded
Finish(r) ==
    /\ pc[r] = "done"
    /\ pc' = [pc EXCEPT ![r] = "idle"]
    /\ req' = [req EXCEPT ![r] = NoRequest]
    /\ date_str' = [date_str EXCEPT ![r] = NoStr]
    /\ filename' = [filename EXCEPT ![r] = NoStr]
    /\ timestamp' = [timestamp EXCEPT ![r] = NoStr]
    /\ resp' = [resp EXCEPT ![r] = NoResp]
    /\ UNCHANGED <<dirs, files, now, received>>

\* datetime.datetime.now() moves on
Elapsed == (now.day - 1) * DayLen + now.sec

Tick ==
    /\ Elapsed < MaxTick
    /\ now.sec + 1 < DayLen
    /\ now' = [now EXCEPT !.sec = @ + 1]
    /\ UNCHANGED <<dirs, files, received, pc, req, date_str, filename,
                   timestamp, resp>>

Midnight ==
    /\ Elapsed < MaxTick
    /\ now.sec + 1 = DayLen
    /\ now' = [day |-> now.day + 1, sec |-> 0]
    /\ UNCHANGED <<dirs, files, received, pc, req, date_str, filename,
                   timestamp, resp>>

upload_file(r) ==
    \/ Authorize(r)
    \/ FilePart(r)
    \/ Selected(r)
    \/ Allowed(r)
    \/ Exists(r)
    \/ Makedirs(r)
    \/ Name(r)
    \/ SaveOpen(r)
    \/ SaveWrite(r)
    \/ Verify(r)
    \/ Describe(r)

Next ==
    \/ \E r \in Workers : status(r)
    \/ \E r \in Workers : Receive(r)
    \/ \E r \in Workers : upload_file(r)
    \/ \E r \in Workers : Finish(r)
    \/ Tick
    \/ Midnight

Spec == Init /\ [][Next]_vars

\* ------------------------------------------------------------- properties
IsUpload(r) == req[r].route = POST_upload
Steps(r) == pc'[r] # pc[r]
Done(r) == pc[r] = "done"
FsUnchanged == dirs' = dirs /\ files' = files

\* the allow-list rule of the contract, stated on the original filename
HasAllowedSuffix(name) ==
    \E i \in 1..Len(name) :
        /\ name[i] = "."
        /\ \A j \in (i + 1)..Len(name) : name[j] # "."
        /\ lower(SubSeq(name, i + 1, Len(name)))
               \in {<<"z", "i", "p">>, <<"c", "s", "v">>}
HasZipSuffix(name) ==
    \E i \in 1..Len(name) :
        /\ name[i] = "."
        /\ \A j \in (i + 1)..Len(name) : name[j] # "."
        /\ lower(SubSeq(name, i + 1, Len(name))) = <<"z", "i", "p">>

\* the request passes the four checks of the contract
PassesChecks(q) ==
    /\ q.token = API_KEY
    /\ q.has_file
    /\ q.filename # <<>>
    /\ HasAllowedSuffix(q.filename)

\* the worker has written its report (line 68 is behind it)
Stored(r) ==
    \/ pc[r] \in {"verify", "desc"}
    \/ Done(r) /\ timestamp[r] # NoStr

DescName == <<"_", "d", "e", "s", "c", ".", "t", "x", "t">>
IsDescPath(p) == Len(p) = 3 /\ endswith(p[3], DescName)
ZipErrors == {<<400, "Invalid ZIP">>, <<400, "Corrupted ZIP">>}

\* C1: an upload whose token is absent or wrong is answered 401 and none of
\* its steps creates a directory or creates or changes a file, whatever
\* else it carries.
C1_UnauthorizedNeverTouchesDisk ==
    [][\A r \in Workers :
        (IsUpload(r) /\ req[r].token # API_KEY /\ Steps(r)) =>
            /\ FsUnchanged
            /\ pc[r] = "auth" => pc'[r] = "done"
                                 /\ resp'[r] = <<401, "Unauthorized">>
            /\ pc[r] # "auth" => pc[r] = "done" /\ pc'[r] = "idle"]_vars

C1_Witness ==
    \E r \in Workers :
        /\ Done(r) /\ IsUpload(r)
        /\ req[r].token = "guessed-token"
        /\ req[r].has_file /\ req[r].filename = Csv_a
        /\ resp[r] = <<401, "Unauthorized">>
        /\ \E q \in Workers : q # r /\ Done(q) /\ req[q].token = NoToken
                              /\ resp[q][1] = 401
        /\ DOMAIN files = {} /\ dirs = {<<UPLOAD_FOLDER>>}

\* C2: no upload that passed the checks fails because the date folder
\* already exists; each of them goes on to store its file.
C2_FolderCreationIsConcurrentSafe ==
    \A r \in Workers :
        (Done(r) /\ IsUpload(r) /\ PassesChecks(req[r])) =>
            /\ resp[r][1] # 500
            /\ Stored(r)

\* C3: an authorized upload whose original filename has the extension zip
\* in any letter case and whose body is not a sound archive is answered 400.
C3_ZipNameNeedsSoundArchive ==
    \A r \in Workers :
        (/\ Done(r) /\ IsUpload(r) /\ PassesChecks(req[r])
         /\ HasZipSuffix(req[r].filename)
         /\ req[r].body # ZipGood) => resp[r][1] = 400

\* C4 as stated: a report file that exists never disappears and never
\* changes the content it was first written with.
C4_ReportsNeverChange ==
    [][\A p \in DOMAIN files :
        /\ p \in DOMAIN files'
        /\ (~IsDescPath(p) /\ files[p] # Truncated) =>
               files'[p] = files[p]]_vars

\* C4 amended: nothing under the storage root is ever removed, and a stored
\* report changes only in a step of file.save of an upload that resolves
\* to the same path.
C4_AppendOnlyUpToCollisions ==
    [][/\ dirs \subseteq dirs'
       /\ \A p \in DOMAIN files :
            /\ p \in DOMAIN files'
            /\ (~IsDescPath(p) /\ files'[p] # files[p]) =>
                   \E r \in Workers :
                       /\ pc[r] \in {"save_open", "save_write"}
                       /\ Steps(r)
                       /\ save_path(r) = p]_vars

C4_Witness ==
    \E r, q \in Workers :
        /\ r # q /\ Stored(r) /\ Stored(q)
        /\ save_path(r) = save_path(q)
        /\ req[r].body # req[q].body
        /\ files[save_path(r)] = req[q].body

\* C5: an authorized upload with a file part and a filename whose suffix is
\* missing or outside {zip, csv} is answered 400 'Invalid file type', and
\* none of its steps creates a directory or writes a file.
C5_BadSuffixIsRejected ==
    [][\A r \in Workers :
        (/\ IsUpload(r) /\ Steps(r)
         /\ req[r].token = API_KEY /\ req[r].has_file
         /\ req[r].filename # <<>>
         /\ ~HasAllowedSuffix(req[r].filename)) =>
            /\ FsUnchanged
            /\ pc'[r] \in {"file_part", "selected", "allowed", "done", "idle"}
            /\ pc'[r] = "done" => resp'[r] = <<400, "Invalid file type">>]_vars

C5_Witness ==
    \E r, q \in Workers :
        /\ Done(r) /\ req[r].token = API_KEY /\ req[r].filename = NoDot
        /\ resp[r] = <<400, "Invalid file type">>
        /\ Done(q) /\ req[q].token = API_KEY /\ req[q].filename = Txt_a
        /\ resp[q] = <<400, "Invalid file type">>
        /\ DOMAIN files = {}

\* C6: a valid authorized .csv upload with body B is answered 201 and its
\* file stands at {root}/{date}/{HHMMSS}_{sanitized name} holding B, the
\* one report of that name in the date folder.
C6_CsvUploadIsStored ==
    \A r \in Workers :
        (/\ Done(r) /\ IsUpload(r) /\ PassesChecks(req[r])
         /\ req[r].filename = Csv_a) =>
            /\ resp[r][1] = 201
            /\ LET p == <<UPLOAD_FOLDER, date_str[r],
                          timestamp[r] \o <<"_">> \o Csv_a>>
               IN /\ p \in DOMAIN files
                  /\ files[p] = req[r].body

\* C7 as stated: an upload that has stored its report has a sibling
\* description file if and only if it supplied a non-empty description,
\* and description files are written with the supplied text only.
C7_DescriptionIffSupplied ==
    /\ [](\A r \in Workers :
            (Done(r) /\ Stored(r) /\ req[r].description # "") =>
                desc_path(r) \in DOMAIN files)
    /\ [][\A r \in Workers :
            (IsUpload(r) /\ Steps(r) /\ files' # files
             /\ pc[r] \notin {"save_open", "save_write"}) =>
                /\ req[r].description # ""
                /\ files' = (desc_path(r) :> req[r].description) @@ files]_vars

\* C7 amended: an upload writes the sibling description file if and only
\* if it supplied a non-empty description and is answered 201; what it
\* writes is that text; an upload answered 400 for its archive writes none.
C7_DescriptionIffSuppliedAndAccepted ==
    [][\A r \in Workers :
        (IsUpload(r) /\ Steps(r) /\ pc[r] \notin {"save_open", "save_write"}) =>
            IF pc'[r] = "done" /\ resp'[r][1] = 201 /\ req[r].description # ""
            THEN /\ files' = (desc_path(r) :> req[r].description) @@ files
                 /\ files'[desc_path(r)] = req[r].description
                 /\ desc_path(r)[2] = date_str[r]
                 /\ desc_path(r)[3] = timestamp[r] \o DescName
            ELSE files' = files]_vars

C7_Witness ==
    \E r, q \in Workers :
        /\ Done(r) /\ resp[r] \in ZipErrors /\ req[r].description # ""
        /\ save_path(r) \in DOMAIN files
        /\ desc_path(r) \notin DOMAIN files
        /\ Done(q) /\ resp[q][1] = 201 /\ req[q].description # ""
        /\ files[desc_path(q)] = req[q].description

\* C8 as stated: when the archive check fails, the answer is 400 and the
\* file still stands at its path with the uploaded content.
C8_RejectedArchiveKeepsContent ==
    \A r \in Workers :
        (Done(r) /\ Stored(r) /\ resp[r][1] # 201) =>
            /\ resp[r] \in ZipErrors
            /\ save_path(r) \in DOMAIN files
            /\ files[save_path(r)] = req[r].body

\* C8 amended: when the archive check fails, the answer is 400, the failing
\* step changes no file or directory, and the file still stands at its
\* path; its content is the uploaded one unless a file.save of another
\* upload resolving to the same path has rewritten it.
C8_RejectedArchiveStaysOnDisk ==
    /\ [](\A r \in Workers :
            (Done(r) /\ Stored(r) /\ resp[r][1] # 201) =>
                /\ resp[r] \in ZipErrors
                /\ endswith(secure_filename(req[r].filename),
                            <<".", "z", "i", "p">>)
                /\ save_path(r) \in DOMAIN files)
    /\ [][\A r \in Workers :
            /\ (pc[r] = "verify" /\ Steps(r)) => FsUnchanged
            /\ (pc[r] = "save_write" /\ Steps(r)) =>
                   files'[save_path(r)] = req[r].body
            /\ Stored(r) => save_path(r) \in DOMAIN files'
            /\ (Stored(r) /\ files'[save_path(r)] # files[save_path(r)]) =>
                   \E q \in Workers \ {r} :
                       /\ pc[q] \in {"save_open", "save_write"}
                       /\ Steps(q)
                       /\ save_path(q) = save_path(r)]_vars

C8_Witness ==
    \E r \in Workers :
        /\ Done(r) /\ resp[r] = <<400, "Corrupted ZIP">>
        /\ req[r].body = ZipCorrupt
        /\ files[save_path(r)] = ZipCorrupt

\* C9: the checks run in the order token, file part, filename, suffix; the
\* answer is that of the first check that fails, and directories and files
\* are created only by requests that pass all four.
FirstFailure(q) ==
    IF q.token # API_KEY THEN <<401, "Unauthorized">>
    ELSE IF ~q.has_file THEN <<400, "No file part">>
    ELSE IF q.filename = <<>> THEN <<400, "No selected file">>
    ELSE IF ~HasAllowedSuffix(q.filename) THEN <<400, "Invalid file type">>
    ELSE NoResp

C9_ChecksInOrder ==
    [][\A r \in Workers :
        (IsUpload(r) /\ Steps(r)) =>
            /\ ~PassesChecks(req[r]) =>
                   /\ FsUnchanged
                   /\ pc'[r] = "done" => resp'[r] = FirstFailure(req[r])
            /\ ~FsUnchanged =>
                   /\ PassesChecks(req[r])
                   /\ pc[r] \notin {"auth", "file_part", "selected", "allowed"}
            /\ (PassesChecks(req[r]) /\ pc'[r] = "done") =>
                   resp'[r][1] \in {201, 500} \/ resp'[r] \in ZipErrors]_vars

C9_Witness ==
    \E r, q \in Workers :
        /\ Done(r) /\ IsUpload(r)
        /\ req[r].token # API_KEY /\ ~req[r].has_file
        /\ resp[r] = <<401, "Unauthorized">>
        /\ Done(q) /\ req[q].token = API_KEY /\ req[q].has_file
        /\ req[q].filename = <<>>
        /\ resp[q] = <<400, "No selected file">>

\* C10: of two accepted uploads with different sanitized filenames and
\* non-empty descriptions, each finds its own text in its description file.
C10_DescriptionStaysWithItsReport ==
    \A r, q \in Workers :
        (/\ r # q
         /\ Done(r) /\ resp[r][1] = 201 /\ req[r].description # ""
         /\ Done(q) /\ resp[q][1] = 201 /\ req[q].description # ""
         /\ filename[r] # filename[q]) =>
            files[desc_path(r)] = req[r].description

TypeOK ==
    /\ received \in 0..MaxUploads
    /\ \A r \in Workers :
        req[r] \in UploadRequests \cup {NoRequest, StatusRequest}
====
